---- MODULE Spec2Model ----
(***************************************************************************)
(* Flight-booking system: the seat reservation protocol (the plpgsql       *)
(* function book_seats and the POST /api/bookings and                      *)
(* POST /api/bookings/:id/cancel handlers) and the replication-aware       *)
(* analytics refresh scheduler of app/server.js.                           *)
(*                                                                         *)
(* The primary database is modelled as PostgreSQL under READ COMMITTED:    *)
(* committed rows (seats, bookings, booking_details), one row lock per     *)
(* row held until the end of the locking (sub)transaction, and a private   *)
(* write set per transaction that COMMIT installs and ROLLBACK discards.   *)
(***************************************************************************)
EXTENDS Integers, Sequences, FiniteSets, TLC

VARIABLES
    seats,              \* committed rows of table seats: seat_id -> [is_available, version]
    bookings,           \* committed rows of table bookings: booking_id -> [status, total_amount]
    booking_details,    \* committed rows of table booking_details
    detail_rows,        \* per booking, the seat ids of its committed lines in the order the table holds the rows
    booking_id_seq,     \* last value of the SERIAL sequence of bookings.booking_id
    rowLock,            \* row lock on each seats row: the holding transaction or NoTxn
    bookingLock,        \* row lock on each bookings row: the holding transaction or NoTxn
    txn,                \* per HTTP handler (one pooled connection each): position and transaction state
    flights,            \* committed rows of table flights: flight_id -> status
    reservedSinceRelease, \* history: per seat, committed reservations since the last committed release
    refreshTimer,       \* server.js refreshTimer: NoTimer or the time left before it fires
    refreshPending,     \* server.js refreshPending
    refreshInFlight,    \* server.js refreshInFlight
    refreshRequestedWhileRunning, \* server.js refreshRequestedWhileRunning
    waiter,             \* the async invocations that wait for replication and refresh
    hist                \* history of the scheduler (never read by the program)

dbVars == <<seats, bookings, booking_details, detail_rows, booking_id_seq, rowLock, bookingLock, txn,
            flights, reservedSinceRelease>>
flagVars == <<refreshTimer, refreshPending, refreshInFlight, refreshRequestedWhileRunning>>
vars == <<seats, bookings, booking_details, detail_rows, booking_id_seq, rowLock, bookingLock, txn,
          flights, reservedSinceRelease, refreshTimer, refreshPending, refreshInFlight,
          refreshRequestedWhileRunning, waiter, hist>>

----------------------------------------------------------------------------
(* Bounds and inputs                                                       *)

MaxBookings == 3        \* booking attempts per run (values drawn from the SERIAL sequence)
MaxLen == 2             \* longest seatIds array of a request
MaxRaced == 2           \* booking attempts per run when bookings race with cancellations

Seats == {101, 102, 103}
Clients == {"c1", "c2"}
BookingIds == 1..MaxBookings
Flights == {1, 2}
FlightStatuses == {"scheduled", "cancelled"}
NoTxn == "none"

Min(a, b) == IF a <= b THEN a ELSE b

SeatArrays == UNION {[1..n -> Seats] : n \in 1..MaxLen}

\* the passengers and prices of a request: the i-th passenger and the i-th price
\* differ from the others, so that a line can be traced to its index
PassengerNames == <<"Ann", "Bob", "Cid", "Dee">>
PriceList == <<350, 400, 450, 500>>

\* seatIds without duplicates in any order, passengerNames and prices aligned with it
Requests ==
    {[seatIds |-> ids, passengerNames |-> SubSeq(PassengerNames, 1, Len(ids)),
      prices |-> SubSeq(PriceList, 1, Len(ids))] :
        ids \in {a \in SeatArrays : \A i, j \in DOMAIN a : a[i] = a[j] => i = j}}

WellFormed(r) ==
    /\ Len(r.seatIds) > 0
    /\ Len(r.seatIds) = Len(r.passengerNames)
    /\ Len(r.seatIds) = Len(r.prices)
    /\ \A i, j \in DOMAIN r.seatIds : r.seatIds[i] = r.seatIds[j] => i = j

\* requests the handler accepts although they are not well formed: no seat, a seat
\* twice, fewer passengers than seats, more passengers and prices than seats
MalformedRequests ==
    {[seatIds |-> <<>>, passengerNames |-> <<>>, prices |-> <<>>],
     [seatIds |-> <<101, 101>>, passengerNames |-> SubSeq(PassengerNames, 1, 2),
      prices |-> SubSeq(PriceList, 1, 2)],
     [seatIds |-> <<101, 102>>, passengerNames |-> SubSeq(PassengerNames, 1, 1),
      prices |-> SubSeq(PriceList, 1, 2)],
     [seatIds |-> <<103>>, passengerNames |-> SubSeq(PassengerNames, 1, 2),
      prices |-> SubSeq(PriceList, 1, 2)]}

NoRequest == [seatIds |-> <<>>, passengerNames |-> <<>>, prices |-> <<>>]
NoResponse == [code |-> 0, seats |-> {}]

NoBooking == [status |-> "none", total_amount |-> 0]

\* a handler that holds no connection: before its first request, or after a response
\* (history: heldAtEnd is the seat rows the transaction held locked when it ended;
\* after a 409 response req is the rejected request, and repeated says that a booking
\* is the same request again that this handler had just seen rejected with 409)
IdleTxn ==
    [pc |-> "idle", op |-> "none", req |-> NoRequest, booking_id |-> 0,
     sorted_seat_ids |-> <<>>, v_idx |-> 0, seat_rows |-> <<>>,
     wseats |-> <<>>, wdetails |-> {}, wbooking |-> NoBooking, response |-> NoResponse,
     heldAtEnd |-> {}, repeated |-> FALSE]

----------------------------------------------------------------------------
(* Pure helpers                                                            *)

SeqSet(s) == {s[i] : i \in DOMAIN s}

RECURSIVE SumSeq(_)
SumSeq(s) == IF s = <<>> THEN 0 ELSE Head(s) + SumSeq(Tail(s))

MinOf(S) == CHOOSE x \in S : \A y \in S : x <= y

RemoveAt(s, i) == SubSeq(s, 1, i - 1) \o SubSeq(s, i + 1, Len(s))

\* ARRAY_AGG(seat_id) without ORDER BY: the ids in the order of the request
ArrayAggUnordered(a) == a

\* ARRAY_AGG(seat_id ORDER BY seat_id) FROM UNNEST(p_seat_ids): ascending, duplicates kept
RECURSIVE ArrayAggOrderBy(_)
ArrayAggOrderBy(a) ==
    IF a = <<>> THEN <<>>
    ELSE LET m == MinOf(SeqSet(a))
             i == CHOOSE k \in DOMAIN a : a[k] = m /\ \A j \in 1..(k - 1) : a[j] # m
         IN  <<m>> \o ArrayAggOrderBy(RemoveAt(a, i))


----------------------------------------------------------------------------
(* The refresh schedule (server.js): configuration and scheduleAnalyticsRefresh *)

\* Time is counted in abstract units; each value is one that parseDelay accepts
\* from the environment variable of the same setting.
refreshDelayMs == 2
replicationLagTargetMs == 1
replicationMaxWaitMs == 3
replicationPollIntervalMs == 2

NoTimer == [armed |-> FALSE, left |-> 0]

Flags == [timer |-> refreshTimer, pending |-> refreshPending,
          inFlight |-> refreshInFlight, requested |-> refreshRequestedWhileRunning]

SetFlags(f) ==
    /\ refreshTimer' = f.timer
    /\ refreshPending' = f.pending
    /\ refreshInFlight' = f.inFlight
    /\ refreshRequestedWhileRunning' = f.requested

\* clearTimeout(refreshTimer); refreshTimer = setTimeout(runScheduledRefresh, refreshDelayMs)
SetTimeoutKeepingDeadline(f) ==
    IF f.timer.armed THEN f.timer ELSE [armed |-> TRUE, left |-> refreshDelayMs]

\* a pending timer is cleared and no new one is set
ClearTimeoutOnly(f) ==
    IF f.timer.armed THEN NoTimer ELSE [armed |-> TRUE, left |-> refreshDelayMs]

SetTimeout(f) == [armed |-> TRUE, left |-> refreshDelayMs]

\* the call arms the timer while a cycle is in flight too
scheduleAnalyticsRefreshWhileInFlight(f) ==
    [f EXCEPT !.pending = TRUE, !.timer = SetTimeout(f)]

\* a call while a cycle is in flight returns without recording the request
scheduleAnalyticsRefreshDroppedInFlight(f) ==
    IF f.inFlight
    THEN f
    ELSE [f EXCEPT !.pending = TRUE, !.timer = SetTimeout(f)]

scheduleAnalyticsRefresh(f) ==
    IF f.inFlight
    THEN [f EXCEPT !.requested = TRUE]
    ELSE [f EXCEPT !.pending = TRUE, !.timer = SetTimeout(f)]

MaxCount == 2           \* the history counters of the scheduler saturate here

\* history of the scheduler: the time since the last NotifyWrite (up to the debounce
\* window), the NotifyWrite calls since the last scheduled cycle began, the scheduled
\* cycles begun and the corrective follow-ups scheduled since the last NotifyWrite
NoHist == [sinceLastNotify |-> refreshDelayMs, burst |-> 0, cycles |-> 0, retries |-> 0]

\* a handler's call of scheduleAnalyticsRefresh() after a committed write
NotifyWriteEffect ==
    /\ SetFlags(scheduleAnalyticsRefresh(Flags))
    /\ hist' = [hist EXCEPT !.sinceLastNotify = 0, !.cycles = 0, !.retries = 0,
                            !.burst = Min(@ + 1, MaxCount)]

----------------------------------------------------------------------------
(* Storage primitives                                                      *)

\* a row lock is free for c when no other transaction holds it
RowLockAlwaysFree(c, s) == TRUE

RowLockFree(c, s) == rowLock[s] \in {NoTxn, c}

\* FOR UPDATE NOWAIT: the statement returns at once, with the lock or with
\* lock_not_available; it never waits for the holder
SelectForUpdateBlocking(c, s) == RowLockFree(c, s)

SelectForUpdateNowait(c, s) == TRUE

\* the value SELECT is_available INTO v_is_available reads from the locked row
ReadAlwaysAvailable(s) == TRUE

\* the read finds every seat taken
ReadNeverAvailable(s) == FALSE

\* the read takes the flag of some row of the table instead of the locked row
ReadAnySeatAvailability(s) == \A x \in Seats : seats[x].is_available

ReadSeatAvailability(s) == seats[s].is_available

ReleaseSeatLocks(c) == [s \in Seats |-> IF rowLock[s] = c THEN NoTxn ELSE rowLock[s]]

ReleaseBookingLocks(c) ==
    [b \in BookingIds |-> IF bookingLock[b] = c THEN NoTxn ELSE bookingLock[b]]

\* the requested seats that are locked by another transaction or already unavailable
ContendedSeats(c, ids) ==
    {s \in SeqSet(ids) : ~RowLockFree(c, s) \/ ~seats[s].is_available}

\* UPDATE seats SET is_available = FALSE, version = version + 1
UpdateSeatBookedVersionUnchanged(row) == [is_available |-> FALSE, version |-> row.version]

UpdateSeatBookedVersionPlusTwo(row) == [is_available |-> FALSE, version |-> row.version + 2]

UpdateSeatBooked(row) == [is_available |-> FALSE, version |-> row.version + 1]

\* VALUES (p_booking_id, v_seat_id, p_passenger_names[v_idx], p_prices[v_idx]) where
\* v_seat_id = sorted_seat_ids[v_idx]
LineFor(t, i) ==
    [booking_id |-> t.booking_id, seat_id |-> t.sorted_seat_ids[i],
     passenger_name |-> t.req.passengerNames[i], price |-> t.req.prices[i]]

\* second loop of book_seats: per seat one UPDATE seats and one INSERT INTO
\* booking_details; a NOT NULL or UNIQUE(booking_id, seat_id) violation raises
RECURSIVE book_seats_write(_, _, _)
book_seats_write(t, i, acc) ==
    IF i > Len(t.sorted_seat_ids) \/ acc.failed THEN acc
    ELSE LET s == t.sorted_seat_ids[i]
             cur == IF s \in DOMAIN acc.wseats THEN acc.wseats[s] ELSE seats[s]
             viol == \/ i \notin DOMAIN t.req.passengerNames
                     \/ i \notin DOMAIN t.req.prices
                     \/ \E l \in acc.wdetails : l.seat_id = s
         IN  book_seats_write(t, i + 1,
                 [wseats |-> (s :> UpdateSeatBooked(cur)) @@ acc.wseats,
                  wdetails |-> IF viol THEN acc.wdetails
                               ELSE acc.wdetails \cup {LineFor(t, i)},
                  failed |-> viol])

\* the orders in which a table can hold a set of rows
RECURSIVE RowOrders(_)
RowOrders(S) ==
    IF S = {} THEN {<<>>}
    ELSE UNION {{<<x>> \o r : r \in RowOrders(S \ {x})} : x \in S}

\* INSERT INTO booking_details of the second loop of book_seats: the store places
\* each row where it has room, which fixes the order an unordered SELECT returns
InsertDetailRows(t) ==
    \E rows \in RowOrders({l.seat_id : l \in t.wdetails}) :
        detail_rows' = [detail_rows EXCEPT ![t.booking_id] = rows]

\* the committed seats once a write set is installed
InstallSeats(w) == [s \in Seats |-> IF s \in DOMAIN w THEN w[s] ELSE seats[s]]

\* the handler after its response and client.release()
HeldSeats(c) == {s \in Seats : rowLock[s] = c}

Done(c, resp) ==
    [IdleTxn EXCEPT !.pc = "done", !.response = resp, !.heldAtEnd = HeldSeats(c),
                    !.req = IF resp.code = 409 THEN txn[c].req ELSE NoRequest,
                    !.repeated = resp.code = 409 /\ txn[c].repeated]

\* COMMIT: the transaction's write set becomes the committed state, all of it at
\* once, and its row locks are released
Commit(c, t) ==
    /\ seats' = InstallSeats(t.wseats)
    /\ bookings' = IF t.wbooking = NoBooking THEN bookings
                   ELSE [bookings EXCEPT ![t.booking_id] = t.wbooking]
    /\ booking_details' = booking_details \cup t.wdetails
    /\ rowLock' = ReleaseSeatLocks(c)
    /\ bookingLock' = ReleaseBookingLocks(c)

\* ROLLBACK: the write set is dropped, the row locks are released
RollbackKeepingWrites(c) ==
    /\ Commit(c, txn[c])
    /\ UNCHANGED reservedSinceRelease

Rollback(c) ==
    /\ rowLock' = ReleaseSeatLocks(c)
    /\ bookingLock' = ReleaseBookingLocks(c)
    /\ UNCHANGED <<seats, bookings, booking_details, reservedSinceRelease>>

----------------------------------------------------------------------------
(* POST /api/bookings                                                      *)

\* err.message.includes('not available') || err.message.includes('lock') ? 409 : 500;
\* the 409 body is a fixed text without seat ids.  'Seat % is not available' is
\* kind "not_available"; 'Could not acquire lock on seat. Please try again.' is
\* kind "lock_not_available"; every other error has neither word.
ErrorResponseAlwaysConflict(kind) == [code |-> 409, seats |-> {}]

ErrorResponseLockOnly(kind) ==
    IF kind = "lock_not_available"
    THEN [code |-> 409, seats |-> {}]
    ELSE [code |-> 500, seats |-> {}]

ErrorResponse(kind) ==
    IF kind \in {"not_available", "lock_not_available"}
    THEN [code |-> 409, seats |-> {}]
    ELSE [code |-> 500, seats |-> {}]

\* an error of a statement reaches the handler's catch: ROLLBACK, the error
\* response, client.release()
FailBooking(c, kind) ==
    /\ Rollback(c)
    /\ txn' = [txn EXCEPT ![c] = Done(c, ErrorResponse(kind))]

\* BEGIN; INSERT INTO bookings (..., 'pending') RETURNING booking_id; the call of
\* book_seats up to the sort of the seat ids
StartBooking(c, r) ==
    /\ txn[c].pc \in {"idle", "done"}
    /\ booking_id_seq < MaxBookings
    /\ booking_id_seq' = booking_id_seq + 1
    /\ txn' = [txn EXCEPT ![c] =
                  [IdleTxn EXCEPT !.pc = "lock", !.op = "book", !.req = r,
                                  !.booking_id = booking_id_seq + 1,
                                  !.wbooking = [status |-> "pending",
                                                total_amount |-> SumSeq(r.prices)],
                                  !.sorted_seat_ids = ArrayAggOrderBy(r.seatIds),
                                  !.v_idx = 1,
                                  !.repeated = /\ txn[c].response.code = 409
                                               /\ txn[c].req = r]]
    /\ UNCHANGED <<seats, bookings, booking_details, rowLock, bookingLock,
                   reservedSinceRelease, flagVars, waiter, hist>>
    /\ UNCHANGED <<flights, detail_rows>>

\* one iteration of the first loop of book_seats (ARRAY_AGG over no row is NULL, and
\* FOR v_idx IN 1..array_length(NULL, 1) raises):
\* SELECT is_available INTO v_is_available ... FOR UPDATE NOWAIT; IF NOT v_is_available
LockNextSeat(c) ==
    /\ txn[c].pc = "lock"
    /\ LET t == txn[c]
           s == t.sorted_seat_ids[t.v_idx]
       IN  IF t.sorted_seat_ids = <<>>
           THEN FailBooking(c, "null_bound")
           ELSE
           /\ SelectForUpdateNowait(c, s)
           /\ IF ~RowLockFree(c, s)
              THEN FailBooking(c, "lock_not_available")
              ELSE IF ~ReadSeatAvailability(s)
              THEN FailBooking(c, "not_available")
              ELSE /\ rowLock' = [rowLock EXCEPT ![s] = c]
                   /\ txn' = [txn EXCEPT ![c] =
                                 [t EXCEPT !.v_idx = @ + 1,
                                           !.pc = IF t.v_idx = Len(t.sorted_seat_ids)
                                                  THEN "write" ELSE "lock"]]
                   /\ UNCHANGED <<seats, bookings, booking_details, bookingLock,
                                  reservedSinceRelease>>
    /\ UNCHANGED <<booking_id_seq, flagVars, waiter, hist>>
    /\ UNCHANGED <<flights, detail_rows>>

\* the second loop of book_seats, on rows this transaction holds locked
WriteSeats(c) ==
    /\ txn[c].pc = "write"
    /\ LET t == txn[c]
           w == book_seats_write(t, 1, [wseats |-> <<>>, wdetails |-> {}, failed |-> FALSE])
       IN  IF w.failed
           THEN FailBooking(c, "constraint")
           ELSE /\ txn' = [txn EXCEPT ![c] = [t EXCEPT !.pc = "confirm",
                                                       !.wseats = w.wseats,
                                                       !.wdetails = w.wdetails]]
                /\ UNCHANGED <<seats, bookings, booking_details, rowLock, bookingLock,
                               reservedSinceRelease>>
    /\ UNCHANGED <<booking_id_seq, flagVars, waiter, hist>>
    /\ UNCHANGED <<flights, detail_rows>>

\* the call of scheduleAnalyticsRefresh() throws while a refresh is running, and the
\* handler's catch answers 500 for the booking that has committed
CommitBookingFailingWhileRefreshing(c) ==
    /\ txn[c].pc = "confirm"
    /\ Commit(c, [txn[c] EXCEPT !.wbooking.status = "confirmed"])
    /\ reservedSinceRelease' =
           [s \in Seats |-> IF s \in DOMAIN txn[c].wseats
                            THEN reservedSinceRelease[s] + 1
                            ELSE reservedSinceRelease[s]]
    /\ NotifyWriteEffect
    /\ txn' = [txn EXCEPT ![c] =
                  Done(c, [code |-> IF refreshInFlight THEN 500 ELSE 200, seats |-> {}])]
    /\ UNCHANGED <<booking_id_seq, waiter>>
    /\ InsertDetailRows(txn[c])
    /\ UNCHANGED flights

\* UPDATE bookings SET status = 'confirmed'; COMMIT; scheduleAnalyticsRefresh();
\* res.json({success: true, ...}); client.release()
CommitBooking(c) ==
    /\ txn[c].pc = "confirm"
    /\ Commit(c, [txn[c] EXCEPT !.wbooking.status = "confirmed"])
    /\ reservedSinceRelease' =
           [s \in Seats |-> IF s \in DOMAIN txn[c].wseats
                            THEN reservedSinceRelease[s] + 1
                            ELSE reservedSinceRelease[s]]
    /\ NotifyWriteEffect
    /\ txn' = [txn EXCEPT ![c] = Done(c, [code |-> 200, seats |-> {}])]
    /\ UNCHANGED <<booking_id_seq, waiter>>
    /\ InsertDetailRows(txn[c])
    /\ UNCHANGED flights

\* a failure of the store (connection lost, statement error) at a statement of the
\* open booking transaction: the statement rejects and the handler's catch runs
StoreFaultBooking(c) ==
    /\ txn[c].pc \in {"lock", "write", "confirm"}
    /\ FailBooking(c, "store")
    /\ UNCHANGED <<booking_id_seq, flagVars, waiter, hist>>
    /\ UNCHANGED <<flights, detail_rows>>

----------------------------------------------------------------------------
(* POST /api/bookings/:bookingId/cancel                                    *)


\* SELECT seat_id FROM booking_details WHERE booking_id = $1, without ORDER BY: the
\* committed rows of the booking in the order the table holds them
SelectSeatIds(b) == detail_rows[b]

\* UPDATE seats SET is_available = TRUE: the other columns of the row are kept
UpdateSeatReleasedNewVersion(row) == [is_available |-> TRUE, version |-> row.version + 1]

UpdateSeatReleased(row) == [row EXCEPT !.is_available = TRUE]

\* BEGIN; SELECT seat_id FROM booking_details WHERE booking_id = $1
StartCancel(c, b) ==
    /\ txn[c].pc \in {"idle", "done"}
    /\ txn' = [txn EXCEPT ![c] =
                  [IdleTxn EXCEPT !.pc = IF SelectSeatIds(b) = <<>>
                                         THEN "cancelrow" ELSE "release",
                                  !.op = "cancel", !.booking_id = b,
                                  !.seat_rows = SelectSeatIds(b), !.v_idx = 1]]
    /\ UNCHANGED <<seats, bookings, booking_details, booking_id_seq, rowLock, bookingLock,
                   reservedSinceRelease, flagVars, waiter, hist>>
    /\ UNCHANGED <<flights, detail_rows>>

\* UPDATE seats SET is_available = TRUE WHERE seat_id = $1: waits for the row lock,
\* then writes the row as it then is, with is_available set
ReleaseNextSeat(c) ==
    /\ txn[c].pc = "release"
    /\ LET t == txn[c]
           s == t.seat_rows[t.v_idx]
       IN  /\ RowLockFree(c, s)
           /\ rowLock' = [rowLock EXCEPT ![s] = c]
           /\ txn' = [txn EXCEPT ![c] =
                         [t EXCEPT !.wseats = (s :> UpdateSeatReleased(seats[s])) @@ @,
                                   !.v_idx = @ + 1,
                                   !.pc = IF t.v_idx = Len(t.seat_rows)
                                          THEN "cancelrow" ELSE "release"]]
    /\ UNCHANGED <<seats, bookings, booking_details, booking_id_seq, bookingLock,
                   reservedSinceRelease, flagVars, waiter, hist>>
    /\ UNCHANGED <<flights, detail_rows>>

\* UPDATE bookings SET status = 'cancelled' WHERE booking_id = $1: no row when the
\* booking is not committed, else waits for the row lock
CancelBookingRow(c) ==
    /\ txn[c].pc = "cancelrow"
    /\ LET t == txn[c] IN
        IF bookings[t.booking_id].status = "none"
        THEN /\ txn' = [txn EXCEPT ![c] = [t EXCEPT !.pc = "commit"]]
             /\ UNCHANGED bookingLock
        ELSE /\ bookingLock[t.booking_id] \in {NoTxn, c}
             /\ bookingLock' = [bookingLock EXCEPT ![t.booking_id] = c]
             /\ txn' = [txn EXCEPT ![c] =
                           [t EXCEPT !.pc = "commit",
                                     !.wbooking = [bookings[t.booking_id]
                                                       EXCEPT !.status = "cancelled"]]]
    /\ UNCHANGED <<seats, bookings, booking_details, booking_id_seq, rowLock,
                   reservedSinceRelease, flagVars, waiter, hist>>
    /\ UNCHANGED <<flights, detail_rows>>

\* COMMIT; scheduleAnalyticsRefresh(); res.json({success: true, ...}); client.release()
CommitCancel(c) ==
    /\ txn[c].pc = "commit"
    /\ Commit(c, txn[c])
    /\ reservedSinceRelease' =
           [s \in Seats |-> IF s \in DOMAIN txn[c].wseats THEN 0
                            ELSE reservedSinceRelease[s]]
    /\ NotifyWriteEffect
    /\ txn' = [txn EXCEPT ![c] = Done(c, [code |-> 200, seats |-> {}])]
    /\ UNCHANGED <<booking_id_seq, waiter>>
    /\ UNCHANGED <<flights, detail_rows>>

\* the catch of the cancel handler calls scheduleAnalyticsRefresh() after ROLLBACK
StoreFaultCancelNotifying(c) ==
    /\ txn[c].pc \in {"release", "cancelrow", "commit"}
    /\ Rollback(c)
    /\ NotifyWriteEffect
    /\ txn' = [txn EXCEPT ![c] = Done(c, [code |-> 500, seats |-> {}])]
    /\ UNCHANGED <<booking_id_seq, waiter>>
    /\ UNCHANGED <<flights, detail_rows>>

\* a failure of the store at a statement of the open cancellation transaction:
\* catch (err): ROLLBACK; res.status(500); client.release()
StoreFaultCancel(c) ==
    /\ txn[c].pc \in {"release", "cancelrow", "commit"}
    /\ Rollback(c)
    /\ txn' = [txn EXCEPT ![c] = Done(c, [code |-> 500, seats |-> {}])]
    /\ UNCHANGED <<booking_id_seq, flagVars, waiter, hist>>
    /\ UNCHANGED <<flights, detail_rows>>

----------------------------------------------------------------------------
(* The waiters of the refresh path; their steps follow below               *)

Manuals == {"m1", "m2"}
Waiters == {"sched"} \cup Manuals

IdleWaiter ==
    [pc |-> "idle", elapsed |-> 0, age |-> 0, sleepLeft |-> 0, sawLagSample |-> FALSE,
     status |-> "none", joined |-> FALSE, result |-> "none"]

----------------------------------------------------------------------------
(* The reservation system: concurrent booking and cancellation handlers    *)

Init ==
    /\ seats = [s \in Seats |-> [is_available |-> TRUE, version |-> 0]]
    /\ bookings = [b \in BookingIds |-> NoBooking]
    /\ booking_details = {}
    /\ detail_rows = [b \in BookingIds |-> <<>>]
    /\ booking_id_seq = 0
    /\ rowLock = [s \in Seats |-> NoTxn]
    /\ bookingLock = [b \in BookingIds |-> NoTxn]
    /\ txn = [c \in Clients |-> IdleTxn]
    /\ flights = [f \in Flights |-> "scheduled"]
    /\ reservedSinceRelease = [s \in Seats |-> 0]
    /\ refreshTimer = NoTimer
    /\ refreshPending = FALSE
    /\ refreshInFlight = FALSE
    /\ refreshRequestedWhileRunning = FALSE
    /\ waiter = [w \in Waiters |-> IdleWaiter]
    /\ hist = NoHist

\* a booking request that arrives while the run's raced attempts are not used up
StartRacedBooking(c, r) ==
    /\ booking_id_seq < MaxRaced
    /\ StartBooking(c, r)

Next ==
    \/ \E c \in Clients, r \in Requests : StartRacedBooking(c, r)
    \/ \E c \in Clients : LockNextSeat(c)
    \/ \E c \in Clients : WriteSeats(c)
    \/ \E c \in Clients : CommitBooking(c)
    \/ \E c \in Clients : StoreFaultBooking(c)
    \/ \E c \in Clients, b \in BookingIds : StartCancel(c, b)
    \/ \E c \in Clients : ReleaseNextSeat(c)
    \/ \E c \in Clients : CancelBookingRow(c)
    \/ \E c \in Clients : CommitCancel(c)
    \/ \E c \in Clients : StoreFaultCancel(c)

Spec == Init /\ [][Next]_vars

\* concurrent well-formed reservations alone: no cancellation, no fault of the store
NextReservations ==
    \/ \E c \in Clients, r \in Requests : StartBooking(c, r)
    \/ \E c \in Clients : LockNextSeat(c)
    \/ \E c \in Clients : WriteSeats(c)
    \/ \E c \in Clients : CommitBooking(c)

SpecReservations == Init /\ [][NextReservations]_vars

----------------------------------------------------------------------------
(* POST /api/flights/batch-update                                          *)

\* UPDATE flights SET status = p_new_status WHERE flight_id = ANY(p_flight_ids) AND
\* status != p_new_status
batch_update_flight_status(p_flight_ids, p_new_status) ==
    [f \in Flights |-> IF f \in p_flight_ids /\ flights[f] # p_new_status
                       THEN p_new_status ELSE flights[f]]

\* the whole handler: one autocommitted statement on the pool, then res.json with the
\* row count, or the catch with 500 when the statement failed
BatchUpdate(flightIds, status, ok) ==
    /\ flights' = IF ok THEN batch_update_flight_status(flightIds, status) ELSE flights
    /\ UNCHANGED <<seats, bookings, booking_details, detail_rows, booking_id_seq, rowLock,
                   bookingLock, txn, reservedSinceRelease, flagVars, waiter, hist>>

\* the three write paths of the API, served one request at a time
NextWrites ==
    \/ \E r \in Requests : StartBooking("c1", r)
    \/ LockNextSeat("c1")
    \/ WriteSeats("c1")
    \/ CommitBooking("c1")
    \/ StoreFaultBooking("c1")
    \/ \E b \in BookingIds : StartCancel("c1", b)
    \/ ReleaseNextSeat("c1")
    \/ CancelBookingRow("c1")
    \/ CommitCancel("c1")
    \/ StoreFaultCancel("c1")
    \/ \E ids \in SUBSET Flights, st \in FlightStatuses, ok \in BOOLEAN :
           BatchUpdate(ids, st, ok)

SpecWrites == Init /\ [][NextWrites]_vars

\* booking handlers that are sent requests of every shape, well formed or not
NextInput ==
    \/ \E c \in Clients, r \in Requests \cup MalformedRequests : StartBooking(c, r)
    \/ \E c \in Clients : LockNextSeat(c)
    \/ \E c \in Clients : WriteSeats(c)
    \/ \E c \in Clients : CommitBooking(c)
    \/ \E c \in Clients : StoreFaultBooking(c)

SpecInput == Init /\ [][NextInput]_vars

----------------------------------------------------------------------------
(* The refresh coordinator (server.js): waitForReplicationCatchUp,          *)
(* runScheduledRefresh and POST /api/reports/refresh                       *)

MaxQueryTicks == 1      \* longest time one replication-status query takes
MaxLag == 2             \* largest lag a sample reports

\* getReplicationLagMs(): null when pg_stat_subscription has no row for the subscription
NoData == -1
LagSamples == {NoData} \cup 0..MaxLag

InWait(w) == waiter[w].pc \in {"poll", "sleep"}
RefreshCallsInFlight == {w \in Waiters : waiter[w].pc = "refresh"}

\* while (Date.now() - start < replicationMaxWaitMs)
WithinBudgetInclusive(elapsed) == elapsed <= replicationMaxWaitMs

WithinBudget(elapsed) == elapsed < replicationMaxWaitMs

\* the wait ends as timed-out whatever was sampled
TimedOutStatusIgnoringSamples(saw) == "timed-out"

\* return sawLagSample ? 'timed-out' : 'no-stats'
TimedOutStatus(saw) == IF saw THEN "timed-out" ELSE "no-stats"

\* the wait is over with `status`: the caller goes on to await refreshAnalytics()
CallRefresh(wr, status) ==
    [wr EXCEPT !.pc = "refresh", !.status = status, !.elapsed = 0, !.age = 0,
               !.sleepLeft = 0, !.sawLagSample = FALSE]

\* entry of waitForReplicationCatchUp up to its first await
EnterWait(wr) ==
    IF replicationMaxWaitMs = 0 THEN CallRefresh(wr, "skipped")
    ELSE IF WithinBudget(0) THEN [wr EXCEPT !.pc = "poll", !.elapsed = 0, !.age = 0,
                                            !.sawLagSample = FALSE]
    ELSE CallRefresh(wr, TimedOutStatus(FALSE))

\* if (lagMs !== null) { ...; if (lagMs <= replicationLagTargetMs) return 'caught-up' }
CaughtUpStrictlyBelow(lagMs) == lagMs # NoData /\ lagMs < replicationLagTargetMs

CaughtUp(lagMs) == lagMs # NoData /\ lagMs <= replicationLagTargetMs

\* const lagMs = await getReplicationLagMs(), and the loop body down to the sleep
Poll(w, lagMs) ==
    /\ waiter[w].pc = "poll"
    /\ waiter' = [waiter EXCEPT ![w] =
           IF CaughtUp(lagMs)
           THEN CallRefresh(@, "caught-up")
           ELSE [@ EXCEPT !.pc = "sleep", !.sleepLeft = replicationPollIntervalMs,
                          !.age = 0,
                          !.sawLagSample = @ \/ lagMs # NoData]]
    /\ UNCHANGED <<dbVars, flagVars, hist>>

\* what the query of pg_stat_subscription can give: an error, no row, or a row from
\* which a lag is computed (the largest of the lag columns, else the age of the last
\* message, else 0)
QueryOutcomes ==
    {[kind |-> "error", lag |-> 0], [kind |-> "empty", lag |-> 0]}
        \cup {[kind |-> "row", lag |-> n] : n \in 0..MaxLag}

QueryFailed == [kind |-> "error", lag |-> 0]

\* the failed query is reported like the missing row
getReplicationLagMsNullOnError(q) ==
    IF q.kind \in {"empty", "error"} THEN NoData ELSE q.lag

\* getReplicationLagMs(): null when there is no row, 0 when the query throws
getReplicationLagMs(q) ==
    IF q.kind = "empty" THEN NoData
    ELSE IF q.kind = "error" THEN 0
    ELSE q.lag

\* one iteration of the loop of waitForReplicationCatchUp with the query's outcome
PollQuery(w, q) == Poll(w, getReplicationLagMs(q))

\* await sleep(replicationPollIntervalMs) is over: the loop condition, then either
\* the next query or the end of the wait
WakeUp(w) ==
    /\ waiter[w].pc = "sleep"
    /\ waiter[w].sleepLeft = 0
    /\ waiter' = [waiter EXCEPT ![w] =
           IF WithinBudget(@.elapsed)
           THEN [@ EXCEPT !.pc = "poll", !.age = 0]
           ELSE CallRefresh(@, TimedOutStatus(@.sawLagSample))]
    /\ UNCHANGED <<dbVars, flagVars, hist>>

\* the debounce timer fires: runScheduledRefresh up to its first await
TimerFires ==
    /\ refreshTimer.armed
    /\ refreshTimer.left = 0
    /\ waiter["sched"].pc = "idle"
    /\ refreshTimer' = NoTimer
    /\ IF ~refreshPending
       THEN UNCHANGED <<refreshPending, refreshInFlight, refreshRequestedWhileRunning,
                        waiter, hist>>
       ELSE /\ refreshPending' = FALSE
            /\ refreshInFlight' = TRUE
            /\ UNCHANGED refreshRequestedWhileRunning
            /\ waiter' = [waiter EXCEPT !["sched"] = EnterWait(@)]
            /\ hist' = [hist EXCEPT !.cycles = Min(@ + 1, MaxCount + 1),
                                    !.burst = IF hist.cycles = 0 THEN @ ELSE 0]
    /\ UNCHANGED dbVars

\* how the last refresh call of an invocation ended (history for the scheduled cycle,
\* the 200 or 500 response for the manual handler)
Outcome(ok) == IF ok THEN "ack" ELSE "error"

\* the error of refreshAnalytics() leaves runScheduledRefresh without the finally block
ScheduledRefreshReturnsNoFinally(ok) ==
    /\ waiter["sched"].pc = "refresh"
    /\ LET shouldRetry == ok /\ waiter["sched"].status \in {"timed-out", "no-stats"}
           pendingWhileRunning == refreshRequestedWhileRunning
           f == [Flags EXCEPT !.inFlight = FALSE, !.requested = FALSE]
       IN  /\ SetFlags(IF ~ok THEN Flags
                       ELSE IF pendingWhileRunning \/ shouldRetry
                       THEN scheduleAnalyticsRefresh(f) ELSE f)
           /\ hist' = [hist EXCEPT !.retries =
                          IF shouldRetry /\ ~pendingWhileRunning
                          THEN Min(@ + 1, MaxCount) ELSE @]
    /\ waiter' = [waiter EXCEPT !["sched"] = [IdleWaiter EXCEPT !.result = Outcome(ok)]]
    /\ UNCHANGED dbVars

\* the finally block without refreshRequestedWhileRunning = false
ScheduledRefreshReturnsKeepingRequest(ok) ==
    /\ waiter["sched"].pc = "refresh"
    /\ LET shouldRetry == ok /\ waiter["sched"].status \in {"timed-out", "no-stats"}
           pendingWhileRunning == refreshRequestedWhileRunning
           f == [Flags EXCEPT !.inFlight = FALSE]
       IN  /\ SetFlags(IF pendingWhileRunning \/ shouldRetry
                       THEN scheduleAnalyticsRefresh(f) ELSE f)
           /\ hist' = [hist EXCEPT !.retries =
                          IF shouldRetry /\ ~pendingWhileRunning
                          THEN Min(@ + 1, MaxCount) ELSE @]
    /\ waiter' = [waiter EXCEPT !["sched"] = [IdleWaiter EXCEPT !.result = Outcome(ok)]]
    /\ UNCHANGED dbVars

\* shouldRetry is set from the status of the wait before refreshAnalytics() is awaited
ScheduledRefreshReturnsRetryingFailure(ok) ==
    /\ waiter["sched"].pc = "refresh"
    /\ LET shouldRetry == waiter["sched"].status \in {"timed-out", "no-stats"}
           pendingWhileRunning == refreshRequestedWhileRunning
           f == [Flags EXCEPT !.inFlight = FALSE, !.requested = FALSE]
       IN  /\ SetFlags(IF pendingWhileRunning \/ shouldRetry
                       THEN scheduleAnalyticsRefresh(f) ELSE f)
           /\ hist' = [hist EXCEPT !.retries =
                          IF shouldRetry /\ ~pendingWhileRunning
                          THEN Min(@ + 1, MaxCount) ELSE @]
    /\ waiter' = [waiter EXCEPT !["sched"] = [IdleWaiter EXCEPT !.result = Outcome(ok)]]
    /\ UNCHANGED dbVars

\* the finally block schedules the follow-up for shouldRetry only
ScheduledRefreshReturnsOnlyRetry(ok) ==
    /\ waiter["sched"].pc = "refresh"
    /\ LET shouldRetry == ok /\ waiter["sched"].status \in {"timed-out", "no-stats"}
           f == [Flags EXCEPT !.inFlight = FALSE, !.requested = FALSE]
       IN  /\ SetFlags(IF shouldRetry THEN scheduleAnalyticsRefresh(f) ELSE f)
           /\ hist' = [hist EXCEPT !.retries =
                          IF shouldRetry THEN Min(@ + 1, MaxCount) ELSE @]
    /\ waiter' = [waiter EXCEPT !["sched"] = [IdleWaiter EXCEPT !.result = Outcome(ok)]]
    /\ UNCHANGED dbVars

\* refreshAnalytics() returns or throws in runScheduledRefresh: the rest of the try,
\* the catch and the finally block
ScheduledRefreshReturns(ok) ==
    /\ waiter["sched"].pc = "refresh"
    /\ LET shouldRetry == ok /\ waiter["sched"].status \in {"timed-out", "no-stats"}
           pendingWhileRunning == refreshRequestedWhileRunning
           f == [Flags EXCEPT !.inFlight = FALSE, !.requested = FALSE]
       IN  /\ SetFlags(IF pendingWhileRunning \/ shouldRetry
                       THEN scheduleAnalyticsRefresh(f) ELSE f)
           /\ hist' = [hist EXCEPT !.retries =
                          IF shouldRetry /\ ~pendingWhileRunning
                          THEN Min(@ + 1, MaxCount) ELSE @]
    /\ waiter' = [waiter EXCEPT !["sched"] = [IdleWaiter EXCEPT !.result = Outcome(ok)]]
    /\ UNCHANGED dbVars

\* the handler clears the debounce timer and the pending flag before it waits
RefreshNowClearingSchedule(m) ==
    /\ waiter[m].pc = "idle"
    /\ waiter' = [waiter EXCEPT ![m] =
           EnterWait([IdleWaiter EXCEPT !.joined = waiter["sched"].pc = "refresh"])]
    /\ SetFlags([Flags EXCEPT !.timer = NoTimer, !.pending = FALSE])
    /\ UNCHANGED <<dbVars, hist>>

\* the handler awaits refreshAnalytics() at once, without waitForReplicationCatchUp()
RefreshNowWithoutWait(m) ==
    /\ waiter[m].pc = "idle"
    /\ waiter' = [waiter EXCEPT ![m] =
           CallRefresh([IdleWaiter EXCEPT !.joined = waiter["sched"].pc = "refresh"],
                       "none")]
    /\ UNCHANGED <<dbVars, flagVars, hist>>

\* POST /api/reports/refresh up to the first await of waitForReplicationCatchUp
RefreshNow(m) ==
    /\ waiter[m].pc = "idle"
    /\ waiter' = [waiter EXCEPT ![m] =
           EnterWait([IdleWaiter EXCEPT !.joined = waiter["sched"].pc = "refresh"])]
    /\ UNCHANGED <<dbVars, flagVars, hist>>

\* refreshAnalytics() returns or throws in the manual handler: 200 or 500
ManualRefreshReturns(m, ok) ==
    /\ waiter[m].pc = "refresh"
    /\ waiter' = [waiter EXCEPT ![m] = [IdleWaiter EXCEPT !.result = Outcome(ok)]]
    /\ UNCHANGED <<dbVars, flagVars, hist>>

\* a write committed and its handler calls scheduleAnalyticsRefresh()
NotifyWrite ==
    /\ NotifyWriteEffect
    /\ UNCHANGED <<dbVars, waiter>>

\* one unit of time passes for the timer, the sleeps and the queries under way;
\* a timer or sleep that is due runs before more time passes
Tick ==
    /\ refreshTimer.armed => refreshTimer.left > 0
    /\ \A w \in Waiters : /\ waiter[w].pc = "sleep" => waiter[w].sleepLeft > 0
                          /\ waiter[w].pc = "poll" => waiter[w].age < MaxQueryTicks
    /\ refreshTimer.armed \/ \E w \in Waiters : InWait(w)
    /\ refreshTimer' = IF refreshTimer.armed THEN [refreshTimer EXCEPT !.left = @ - 1]
                       ELSE refreshTimer
    /\ waiter' = [w \in Waiters |->
                     IF waiter[w].pc = "sleep"
                     THEN [waiter[w] EXCEPT !.sleepLeft = @ - 1, !.elapsed = @ + 1]
                     ELSE IF waiter[w].pc = "poll"
                     THEN [waiter[w] EXCEPT !.age = @ + 1, !.elapsed = @ + 1]
                     ELSE waiter[w]]
    /\ hist' = [hist EXCEPT !.sinceLastNotify = Min(@ + 1, refreshDelayMs)]
    /\ UNCHANGED <<dbVars, refreshPending, refreshInFlight, refreshRequestedWhileRunning>>

NextRefresh ==
    \/ NotifyWrite
    \/ TimerFires
    \/ \E w \in Waiters, q \in QueryOutcomes : PollQuery(w, q)
    \/ \E w \in Waiters : WakeUp(w)
    \/ \E ok \in BOOLEAN : ScheduledRefreshReturns(ok)
    \/ \E m \in Manuals : RefreshNow(m)
    \/ \E m \in Manuals, ok \in BOOLEAN : ManualRefreshReturns(m, ok)
    \/ Tick

SpecRefresh == Init /\ [][NextRefresh]_vars

----------------------------------------------------------------------------
(* Properties of the reservation protocol                                  *)

Details(b) == {l \in booking_details : l.booking_id = b}
DetailsAfter(b) == {l \in booking_details' : l.booking_id = b}

BookingInProgress(c) == txn[c].op = "book" /\ txn[c].pc \in {"lock", "write", "confirm"}

\* this step is the commit of c's booking (outcome Confirmed, response 200)
Confirms(c) == BookingInProgress(c) /\ txn'[c].pc = "done" /\ txn'[c].response.code = 200

\* this step ends c's booking with Conflict (409) or TransientFailure (500)
Aborts(c) ==
    BookingInProgress(c) /\ txn'[c].pc = "done" /\ txn'[c].response.code \in {409, 500}

\* C1: a seat is never part of two committed reservations unless a cancellation that
\* released the seat committed between them: per seat, at most one reservation has
\* committed since the last committed release of that seat.
C1_AtMostOneReservationPerSeat == \A s \in Seats : reservedSinceRelease[s] <= 1

\* a seat that two bookings have lines for: reserved, released, reserved again
C1_Witness ==
    \E l1, l2 \in booking_details :
        /\ l1.seat_id = l2.seat_id
        /\ l1.booking_id # l2.booking_id
        /\ reservedSinceRelease[l1.seat_id] = 1

\* the transactions a handler waits for: the holder of the row lock its next
\* statement needs and cannot get
WaitsFor(c) ==
    LET t == txn[c] IN
    IF t.pc = "lock" /\ ~SelectForUpdateNowait(c, t.sorted_seat_ids[t.v_idx])
        THEN {rowLock[t.sorted_seat_ids[t.v_idx]]}
    ELSE IF t.pc = "release" /\ ~RowLockFree(c, t.seat_rows[t.v_idx])
        THEN {rowLock[t.seat_rows[t.v_idx]]}
    ELSE IF t.pc = "cancelrow" /\ bookings[t.booking_id].status # "none"
                               /\ bookingLock[t.booking_id] \notin {NoTxn, c}
        THEN {bookingLock[t.booking_id]}
    ELSE {}

RECURSIVE WaitReach(_, _)
WaitReach(S, n) ==
    IF n = 0 THEN S ELSE WaitReach(S \cup UNION {WaitsFor(d) : d \in S}, n - 1)

\* c waits, directly or through others, for a lock it holds itself
InWaitCycle(c) == c \in WaitReach(WaitsFor(c), Cardinality(Clients))

NoWaitCycle == \A c \in Clients : ~InWaitCycle(c)

\* the statements a booking still has to run: the rest of the first loop, the second
\* loop, the commit
Remaining(t) ==
    IF t.pc = "lock" THEN Len(t.sorted_seat_ids) - t.v_idx + 3
    ELSE IF t.pc = "write" THEN 2
    ELSE IF t.pc = "confirm" THEN 1
    ELSE 0

\* C3: concurrent reservations never deadlock: no reservation is ever part of a cycle
\* of transactions waiting for each other's row locks, a reservation in progress can
\* always take its next step (it never waits), and each of its steps brings it nearer
\* to its end (Confirmed, Conflict or TransientFailure) whatever order the seat ids
\* came in.
C3_NoDeadlock ==
    /\ [](\A c \in Clients : BookingInProgress(c) => ~InWaitCycle(c))
    /\ [](\A c \in Clients : BookingInProgress(c) =>
              ENABLED (LockNextSeat(c) \/ WriteSeats(c) \/ CommitBooking(c)))
    /\ [][\A c \in Clients : (BookingInProgress(c) /\ txn'[c] # txn[c]) =>
              /\ Remaining(txn'[c]) < Remaining(txn[c])
              /\ (txn'[c].pc = "done" => txn'[c].response.code \in {200, 409, 500})]_vars

\* two reservations on the same two seats, listed in opposite orders: one holds the
\* lower seat, the other is about to try it
C3_Witness ==
    \E c, d \in Clients :
        /\ c # d
        /\ BookingInProgress(c) /\ BookingInProgress(d)
        /\ txn[c].req.seatIds = <<102, 101>>
        /\ txn[d].req.seatIds = <<101, 102>>
        /\ rowLock[101] = c
        /\ txn[d].pc = "lock" /\ txn[d].v_idx = 1

\* C4: a reservation that ends in Conflict or TransientFailure leaves the committed
\* state as it was: none of its steps changes a seat, a booking or a reservation line,
\* its last step included, and no booking row or line of the attempt exists afterwards,
\* also when seats had already been locked and found available.
C4_FailureLeavesNoTrace ==
    [][\A c \in Clients :
          (BookingInProgress(c) /\ txn'[c] # txn[c] /\ ~Confirms(c)) =>
              /\ UNCHANGED <<seats, bookings, booking_details>>
              /\ bookings'[txn[c].booking_id] = NoBooking
              /\ DetailsAfter(txn[c].booking_id) = {}]_vars

\* an attempt that ended in Conflict after it had locked an available seat
C4_Witness ==
    \E c \in Clients :
        /\ txn[c].pc = "done"
        /\ txn[c].response.code = 409
        /\ txn[c].heldAtEnd # {}

\* C5: a Conflict names exactly the requested seats that are locked by another
\* transaction or already unavailable, and the caller receives those seat ids.
C5_ConflictNamesContendedSeats ==
    [][\A c \in Clients :
          (Aborts(c) /\ txn'[c].response.code = 409) =>
              txn'[c].response.seats = ContendedSeats(c, txn[c].req.seatIds)]_vars

\* C9: on a Confirmed reservation the line recorded for seatIds[i] carries
\* passengerNames[i] and prices[i], for every index i of the request, whatever the
\* order of seatIds.
C9_LinesAlignedWithRequest ==
    [][\A c \in Clients :
          Confirms(c) =>
              \A i \in DOMAIN txn[c].req.seatIds :
                  \E l \in DetailsAfter(txn[c].booking_id) :
                      /\ l.seat_id = txn[c].req.seatIds[i]
                      /\ l.passenger_name = txn[c].req.passengerNames[i]
                      /\ l.price = txn[c].req.prices[i]]_vars

\* C10: the commit of a Confirmed reservation takes every requested seat from
\* available to unavailable with its version one higher, records exactly one line per
\* requested seat for the booking and none else, and all of it appears in that one
\* step: before the commit nothing of the booking is in the committed state.
C10_ConfirmedEffectAtCommit ==
    /\ [][\A c \in Clients :
            Confirms(c) =>
                LET ids == SeqSet(txn[c].req.seatIds)
                    b == txn[c].booking_id
                IN  /\ \A s \in ids :
                          /\ seats[s].is_available
                          /\ ~seats'[s].is_available
                          /\ seats'[s].version = seats[s].version + 1
                          /\ Cardinality({l \in DetailsAfter(b) : l.seat_id = s}) = 1
                    /\ \A s \in Seats \ ids : seats'[s] = seats[s]
                    /\ {l.seat_id : l \in DetailsAfter(b)} = ids
                    /\ Details(b) = {}
                    /\ bookings'[b].status = "confirmed"
                    /\ booking_details' \ DetailsAfter(b) = booking_details]_vars
    /\ [](\A c \in Clients : BookingInProgress(c) =>
              /\ bookings[txn[c].booking_id] = NoBooking
              /\ Details(txn[c].booking_id) = {})

\* a committed booking of two seats: both unavailable, a line for each
C10_Witness ==
    \E b \in BookingIds :
        /\ bookings[b].status = "confirmed"
        /\ Cardinality(Details(b)) = 2
        /\ \A l \in Details(b) : ~seats[l.seat_id].is_available /\ seats[l.seat_id].version = 1

\* the seat the next iteration of the first loop of c's booking locks and reads
SeatAtHand(c) == txn[c].sorted_seat_ids[txn[c].v_idx]

\* C11: no false conflict on disjoint sets: a reservation ends in Conflict only at a
\* requested seat that another transaction holds locked or that is unavailable, and
\* ends in failure otherwise only by a fault of the store; while all its seats are
\* available and untouched by other transactions its next step succeeds, whatever
\* other reservations run beside it and in whatever order they commit.
C11_NoFalseConflict ==
    /\ [][\A c \in Clients :
            (Aborts(c) /\ txn'[c].response.code = 409) =>
                /\ txn[c].pc = "lock"
                /\ SeatAtHand(c) \in ContendedSeats(c, txn[c].req.seatIds)]_vars
    /\ [][\A c \in Clients :
            (Aborts(c) /\ txn'[c].response.code = 500) => StoreFaultBooking(c)]_vars
    /\ [](\A c \in Clients :
            (BookingInProgress(c) /\ ContendedSeats(c, txn[c].req.seatIds) = {}) =>
                ENABLED (/\ LockNextSeat(c) \/ WriteSeats(c) \/ CommitBooking(c)
                         /\ txn'[c].response.code \notin {409, 500}))

\* two concurrent reservations of disjoint seats: the one that began later committed
\* first, the other holds its seats and is about to commit
C11_Witness ==
    \E c \in Clients :
        /\ txn[c].pc = "confirm"
        /\ txn[c].booking_id = 1
        /\ bookings[2].status = "confirmed"
        /\ Details(2) # {}
        /\ {l.seat_id : l \in Details(2)} \cap SeqSet(txn[c].req.seatIds) = {}

\* C12: a reservation request that includes an unavailable seat is rejected every time
\* it is made: the attempt never gets past the lock loop, the iteration that reads the
\* unavailable seat ends the attempt, with Conflict (409) whenever the statement itself
\* runs (a fault of the store at it gives 500), the committed state is unchanged by it,
\* and no attempt commits while one of its seats is unavailable (no partial success).
C12_RejectionIsIdempotent ==
    /\ [](\A c \in Clients :
            (txn[c].op = "book" /\ txn[c].pc \in {"write", "confirm"}) =>
                \A s \in SeqSet(txn[c].req.seatIds) :
                    seats[s].is_available /\ rowLock[s] = c)
    /\ [][\A c \in Clients :
            (/\ txn[c].op = "book" /\ txn[c].pc = "lock"
             /\ txn[c].sorted_seat_ids # <<>>
             /\ ~seats[SeatAtHand(c)].is_available
             /\ txn'[c] # txn[c]) =>
                /\ Aborts(c)
                /\ UNCHANGED <<seats, bookings, booking_details>>]_vars
    /\ [](\A c \in Clients :
            (/\ txn[c].op = "book" /\ txn[c].pc = "lock"
             /\ txn[c].sorted_seat_ids # <<>>
             /\ ~seats[SeatAtHand(c)].is_available) =>
                ~ENABLED (LockNextSeat(c) /\ txn'[c].response.code # 409))
    /\ [][\A c \in Clients :
            Confirms(c) => \A s \in SeqSet(txn[c].req.seatIds) : seats[s].is_available]_vars

\* the same request rejected a second time by the same handler, which had locked the
\* request's available seat before it read the unavailable one; no other handler ran
C12_Witness ==
    \E c \in Clients :
        /\ txn[c].pc = "done"
        /\ txn[c].response.code = 409
        /\ txn[c].repeated
        /\ txn[c].heldAtEnd # {}
        /\ \E s \in SeqSet(txn[c].req.seatIds) : ~seats[s].is_available
        /\ \A s \in txn[c].heldAtEnd : seats[s] = [is_available |-> TRUE, version |-> 0]
        /\ \A d \in Clients \ {c} : txn[d].pc = "idle"

\* seats 101 and 102 are reserved by the committed booking 1, seat 103 is available,
\* and no handler but c is at work
AfterFirstReservation(c) ==
    /\ bookings[1].status = "confirmed"
    /\ {l.seat_id : l \in Details(1)} = {101, 102}
    /\ ~seats[101].is_available /\ ~seats[102].is_available
    /\ seats[103].is_available
    /\ \A d \in Clients \ {c} : txn[d].pc \in {"idle", "done"}

\* C13: with seats 101, 102 and 103 available, [101,102] is reserved and confirmed; the
\* reservation of [102,103] that follows ends in Conflict (409), its response names
\* seat 102 and no other, and seat 103 is still available afterwards.
C13_SecondReservationNamesSeat102 ==
    [][\A c \in Clients :
          (/\ AfterFirstReservation(c)
           /\ BookingInProgress(c)
           /\ SeqSet(txn[c].req.seatIds) = {102, 103}
           /\ txn'[c].pc = "done"
           /\ ~StoreFaultBooking(c)) =>
              /\ txn'[c].response.code = 409
              /\ txn'[c].response.seats = {102}
              /\ seats'[103] = seats[103]]_vars

\* C14: a malformed reservation request (no seat, a seat twice, passengerNames or
\* prices of another length than seatIds) is answered with InvalidRequest (400) before
\* any storage operation: no booking id is drawn for it, no transaction is open for it
\* and it holds no row lock.
C14_MalformedNeverReachesStore ==
    \A c \in Clients :
        (txn[c].op = "book" /\ ~WellFormed(txn[c].req)) =>
            /\ txn[c].pc = "done"
            /\ txn[c].response.code = 400
            /\ txn[c].booking_id = 0
            /\ HeldSeats(c) = {}

\* the statement c's booking runs next is the locking read of a requested seat that
\* another transaction holds locked or that is unavailable
AtContendedSeat(c) ==
    /\ txn[c].op = "book" /\ txn[c].pc = "lock"
    /\ txn[c].sorted_seat_ids # <<>>
    /\ SeatAtHand(c) \in ContendedSeats(c, txn[c].req.seatIds)

C16_NotifyAfterEveryWrite ==
    [][<<seats, bookings, booking_details, flights>>' #
           <<seats, bookings, booking_details, flights>> => NotifyWriteEffect]_vars

\* this step is the commit of a cancellation that wrote seat s
ReleasesSeat(c, s) == CommitCancel(c) /\ s \in DOMAIN txn[c].wseats

\* this step is the commit of a successful reservation of seat s
ReservesSeat(c, s) == CommitBooking(c) /\ Confirms(c) /\ s \in SeqSet(txn[c].sorted_seat_ids)

\* C23: a seat row changes only through the two operations: availability goes from
\* true to false only in the commit of a successful reservation of the seat, which
\* adds exactly 1 to the version; it goes from false to true only in the commit of a
\* cancellation, which leaves the version unchanged; no step changes a seat in any
\* other way, and the version of a seat never decreases.
C23_SeatChangesOnlyByReserveAndRelease ==
    [][\A s \in Seats :
          /\ seats'[s].version >= seats[s].version
          /\ seats'[s] # seats[s] =>
                \/ /\ seats[s].is_available /\ ~seats'[s].is_available
                   /\ seats'[s].version = seats[s].version + 1
                   /\ \E c \in Clients : ReservesSeat(c, s)
                \/ /\ ~seats[s].is_available /\ seats'[s].is_available
                   /\ seats'[s].version = seats[s].version
                   /\ \E c \in Clients : ReleasesSeat(c, s)]_vars

\* a seat reserved, released and reserved again: its version counts the reservations
C23_Witness ==
    \E s \in Seats : ~seats[s].is_available /\ seats[s].version = 2
                     /\ reservedSinceRelease[s] = 1

\* the state a committed cancellation of booking b leaves: the booking row, if there
\* is one, is cancelled and the seats of its lines are available
CancelledState(b) ==
    /\ bookings[b].status \in {"none", "cancelled"}
    /\ \A l \in Details(b) : seats[l.seat_id].is_available

CancelledStateAfter(b) ==
    /\ bookings'[b].status \in {"none", "cancelled"}
    /\ \A l \in DetailsAfter(b) : seats'[l.seat_id].is_available

C25_NoWaitCycleWithCancellations == NoWaitCycle

\* the seat ids at the first n positions of a list
PrefixSet(s, n) == {s[i] : i \in 1..Min(n, Len(s))}

StrictlyAscending(s) == \A i, j \in DOMAIN s : i < j => s[i] < s[j]

\* C26: a reservation takes its seat locks in strictly ascending seat id order
\* whatever order the request lists the ids in, and none before the sort: its sorted
\* list is the ascending arrangement of the requested ids, and at every moment the
\* seat locks it holds are exactly those of a prefix of that list.
C26_LocksHeldArePrefixOfSortedList ==
    \A c \in Clients :
        BookingInProgress(c) =>
            /\ StrictlyAscending(txn[c].sorted_seat_ids)
            /\ SeqSet(txn[c].sorted_seat_ids) = SeqSet(txn[c].req.seatIds)
            /\ HeldSeats(c) = PrefixSet(txn[c].sorted_seat_ids, txn[c].v_idx - 1)

\* a request that lists 102 before 101 holds the lock of 101 alone
C26_Witness ==
    \E c \in Clients :
        /\ BookingInProgress(c) /\ txn[c].pc = "lock"
        /\ txn[c].req.seatIds = <<102, 101>>
        /\ HeldSeats(c) = {101}

\* the next statement of c's reservation is the locking read of a seat whose row lock
\* another transaction holds
AtHeldSeat(c) ==
    /\ txn[c].op = "book" /\ txn[c].pc = "lock"
    /\ txn[c].sorted_seat_ids # <<>>
    /\ rowLock[SeatAtHand(c)] \notin {NoTxn, c}

\* C27: lock attempts of a reservation are non-blocking: no reachable state has a
\* reservation waiting for a seat lock that another transaction holds; its locking
\* read can always run, and on a held row it fails at once: the only outcome of the
\* statement is the end of the reservation with Conflict (409), rolled back.
C27_LockAttemptNeverWaits ==
    \A c \in Clients :
        /\ BookingInProgress(c) => WaitsFor(c) = {}
        /\ (txn[c].op = "book" /\ txn[c].pc = "lock") => ENABLED LockNextSeat(c)
        /\ AtHeldSeat(c) =>
              ~ENABLED (/\ LockNextSeat(c)
                        /\ ~(/\ Aborts(c)
                             /\ txn'[c].response.code = 409
                             /\ \A s \in Seats : rowLock'[s] # c))

\* a reservation that holds a seat lock is about to try a seat whose lock a
\* cancellation holds
C27_Witness ==
    \E c, d \in Clients :
        /\ AtHeldSeat(c)
        /\ rowLock[SeatAtHand(c)] = d
        /\ txn[d].op = "cancel"
        /\ HeldSeats(c) # {}

\* C34: progress under contention: concurrent well-formed reservations over seats
\* that are all available at the start, without store faults or cancellations, never
\* all abort one another: whenever every attempt made so far has ended, one of them
\* has committed.
C34_SomeAttemptCommits ==
    (booking_id_seq >= 1 /\ \A c \in Clients : ~BookingInProgress(c)) =>
        \E b \in BookingIds : bookings[b].status = "confirmed"

\* two attempts met at a seat: one ended with Conflict, the other committed, and
\* only one booking is confirmed
C34_Witness ==
    \E c, d \in Clients :
        /\ txn[c].pc = "done" /\ txn[c].response.code = 409
        /\ txn[d].pc = "done" /\ txn[d].response.code = 200
        /\ booking_id_seq = 2
        /\ Cardinality({b \in BookingIds : bookings[b].status = "confirmed"}) = 1

\* the confirmed bookings that have a reservation line for seat s
ConfirmedHolders(s) ==
    {b \in BookingIds : bookings[b].status = "confirmed" /\ \E l \in Details(b) : l.seat_id = s}

\* no handler has a transaction open
Quiet == \A c \in Clients : txn[c].pc \in {"idle", "done"}

\* C36: after any sequence of committed bookings and cancellations, repeated
\* cancellations of a booking and rebooking of released seats included, a seat is
\* unavailable exactly when one confirmed booking has a reservation line for it, and
\* no seat has lines of two confirmed bookings.
C36_UnavailableIffOneConfirmedHolder ==
    Quiet => \A s \in Seats :
                 /\ Cardinality(ConfirmedHolders(s)) <= 1
                 /\ ~seats[s].is_available <=> ConfirmedHolders(s) # {}

\* this step ends the open transaction of c without success: Conflict or
\* TransientFailure of a booking, or a cancellation rolled back
EndsWithoutCommit(c) ==
    /\ txn[c].pc \notin {"idle", "done"}
    /\ txn'[c].pc = "done"
    /\ txn'[c].response.code # 200

\* C38: scheduleAnalyticsRefresh() is never called for a write that did not commit: a
\* booking that ends in Conflict or TransientFailure and a cancellation that is
\* rolled back leave the flags and the timer of the refresh schedule as they are and
\* start nothing on the refresh path; the schedule changes only at the commit of a
\* booking or of a cancellation.
C38_NoNotifyWithoutCommit ==
    /\ [][\A c \in Clients :
            EndsWithoutCommit(c) =>
                /\ UNCHANGED <<flagVars, waiter, hist>>
                /\ UNCHANGED <<seats, bookings, booking_details>>]_vars
    /\ [][flagVars' # flagVars =>
            \E c \in Clients : /\ CommitBooking(c) \/ CommitCancel(c)
                               /\ txn'[c].response.code = 200]_vars

\* a booking has ended with Conflict at a seat another booking holds locked; nothing
\* has committed and nothing is scheduled
C38_Witness ==
    \E c, d \in Clients :
        /\ txn[c].pc = "done" /\ txn[c].response.code = 409
        /\ BookingInProgress(d) /\ HeldSeats(d) # {}
        /\ \A b \in BookingIds : bookings[b].status = "none"
        /\ refreshTimer = NoTimer /\ ~refreshPending
        /\ hist = NoHist

----------------------------------------------------------------------------
(* Properties of the refresh coordinator                                   *)

\* this step is the debounce timer starting a refresh cycle
CycleStarts == refreshTimer.armed /\ ~refreshInFlight /\ refreshInFlight'

\* C2: at most one refresh call (refresh_all_analytics) is in flight at any time, for
\* every interleaving of NotifyWrite, timer firings, scheduled refreshes and manual
\* refresh requests, two concurrent manual requests included.
C2_AtMostOneRefreshInFlight == Cardinality(RefreshCallsInFlight) <= 1

\* C6 as stated: the NotifyWrite calls of a burst trigger exactly one refresh call (no
\* second scheduled cycle begins unless a further NotifyWrite arrives), and the cycle
\* begins only after a full debounce window since the last call.
C6_OneRefreshPerBurst ==
    /\ [](hist.cycles <= 1)
    /\ [][CycleStarts => hist.sinceLastNotify = refreshDelayMs]_vars

\* C6 amended: after a NotifyWrite the schedule holds exactly one armed timer (or the
\* request flag while a cycle runs) until the next cycle begins; that cycle begins only
\* after a full debounce window since the last NotifyWrite; and every further cycle that
\* begins without a new NotifyWrite was scheduled as the corrective follow-up of a lag
\* wait that ended timed-out or no-stats.
C6_OneCyclePerBurstPlusFollowUps ==
    /\ []((hist.burst > 0 /\ hist.cycles = 0) =>
             \/ refreshPending /\ refreshTimer.armed
             \/ refreshInFlight /\ refreshRequestedWhileRunning)
    /\ [](hist.cycles <= 1 + hist.retries)
    /\ [][CycleStarts => hist.sinceLastNotify = refreshDelayMs]_vars

\* the refresh call of the one cycle that a burst of two or more NotifyWrite calls started
C6_Witness ==
    /\ hist.burst >= 2
    /\ hist.cycles = 1
    /\ hist.retries = 0
    /\ waiter["sched"].pc = "refresh"

\* C7: a manual refresh that arrives while the scheduled refresh call is in flight is
\* coalesced into it and never issues a refresh call of its own.
C7_ManualJoinsScheduledRefresh ==
    \A m \in Manuals : waiter[m].joined => waiter[m].pc # "refresh"

\* C8 as stated: the lag wait never exceeds the maximum-wait budget, and when it ends
\* without a sample at or below the target the refresh is issued.
C8_WaitWithinBudget ==
    /\ [](\A w \in Waiters : InWait(w) => waiter[w].elapsed <= replicationMaxWaitMs)
    /\ [][\A w \in Waiters : (InWait(w) /\ ~InWait(w)') => waiter'[w].pc = "refresh"]_vars

\* C8 amended: when no sample is at or below the target the lag wait still ends: no
\* poll starts once the elapsed time has reached the maximum, the wait ends at the first
\* check of the loop condition at or after the maximum, which is at most one poll
\* iteration (one query and one sleep) past it, as timed-out iff a sample with data was
\* seen and no-stats otherwise, and the refresh call is issued in the same step.
C8_WaitEndsAfterBudget ==
    /\ [](\A w \in Waiters :
            /\ waiter[w].pc = "poll" =>
                   waiter[w].elapsed - waiter[w].age < replicationMaxWaitMs
            /\ InWait(w) => waiter[w].elapsed <
                   replicationMaxWaitMs + replicationPollIntervalMs + MaxQueryTicks)
    /\ [][\A w \in Waiters :
            (InWait(w) /\ ~InWait(w)') =>
                /\ waiter'[w].pc = "refresh"
                /\ waiter'[w].status \in {"caught-up", "timed-out", "no-stats"}
                /\ waiter'[w].status = "caught-up" => waiter[w].pc = "poll"
                /\ waiter'[w].status # "caught-up" =>
                       /\ waiter[w].elapsed >= replicationMaxWaitMs
                       /\ waiter'[w].status = TimedOutStatus(waiter[w].sawLagSample)]_vars

\* a manual refresh whose lag wait ran out of budget, with its refresh call in flight
C8_Witness ==
    \E m \in Manuals :
        /\ waiter[m].pc = "refresh"
        /\ waiter[m].status \in {"timed-out", "no-stats"}

\* the coordinator states of the flags after a step
IdleAfter ==
    /\ refreshTimer' = NoTimer
    /\ ~refreshPending' /\ ~refreshInFlight' /\ ~refreshRequestedWhileRunning'

PendingDebounceAfter ==
    /\ refreshTimer' = [armed |-> TRUE, left |-> refreshDelayMs]
    /\ refreshPending' /\ ~refreshInFlight' /\ ~refreshRequestedWhileRunning'

\* this step is the return of the scheduled refresh call
RefreshCallReturns == refreshInFlight /\ ~refreshInFlight'

\* C17 as stated: when the refresh call returns the coordinator goes to Idle if no
\* NotifyWrite arrived while the cycle ran, and to PendingDebounce with a new timer and
\* the request flag cleared if one or more arrived.
C17_ReturnToIdleOrPending ==
    [][RefreshCallReturns =>
          IF refreshRequestedWhileRunning THEN PendingDebounceAfter ELSE IdleAfter]_vars

\* C17 amended: when the refresh call returns the coordinator goes to PendingDebounce
\* with a new full timer and the request flag cleared if a NotifyWrite arrived while the
\* cycle ran, or if the call succeeded after a lag wait that ended timed-out or
\* no-stats; in every other case it goes to Idle.
C17_ReturnToIdleUnlessRequestedOrRetry ==
    [][RefreshCallReturns =>
          LET lagging == waiter["sched"].status \in {"timed-out", "no-stats"}
          IN  /\ waiter["sched"].pc = "refresh" /\ waiter'["sched"].pc = "idle"
              /\ refreshRequestedWhileRunning => PendingDebounceAfter
              /\ (~refreshRequestedWhileRunning /\ ~lagging) => IdleAfter
              /\ (~refreshRequestedWhileRunning /\ lagging) =>
                     /\ ScheduledRefreshReturns(TRUE) => PendingDebounceAfter
                     /\ ScheduledRefreshReturns(FALSE) => IdleAfter
                     /\ ScheduledRefreshReturns(TRUE) \/ ScheduledRefreshReturns(FALSE)]_vars

\* the refresh call has returned after a NotifyWrite arrived while it ran: the timer
\* is newly started although time has passed since that NotifyWrite
C17_Witness ==
    /\ waiter["sched"].pc = "idle"
    /\ refreshPending /\ ~refreshInFlight /\ ~refreshRequestedWhileRunning
    /\ refreshTimer = [armed |-> TRUE, left |-> refreshDelayMs]
    /\ hist.sinceLastNotify > 0
    /\ hist.retries = 0

\* C18: a failing refresh call does not leave the coordinator in Refreshing and does
\* not stop the scheduler: inFlight is set exactly while a scheduled cycle runs; the
\* return of a failed call clears it and leaves Idle, or PendingDebounce if a NotifyWrite
\* arrived meanwhile; after a failed call a NotifyWrite arms a full debounce timer as it
\* does from Idle, and when that timer is due it starts a new cycle.
C18_FailedRefreshLeavesSchedulerRunning ==
    /\ [](refreshInFlight <=> waiter["sched"].pc # "idle")
    /\ [][(waiter["sched"].pc = "refresh" /\ ScheduledRefreshReturns(FALSE)) =>
            /\ ~refreshInFlight'
            /\ IF refreshRequestedWhileRunning THEN PendingDebounceAfter ELSE IdleAfter]_vars
    /\ [][(waiter["sched"].result = "error" /\ ~refreshInFlight /\ NotifyWriteEffect) =>
            PendingDebounceAfter]_vars
    /\ []((/\ waiter["sched"].result = "error"
           /\ refreshPending /\ refreshTimer.armed /\ refreshTimer.left = 0) =>
             ENABLED (TimerFires /\ refreshInFlight'))

\* the refresh call of a new cycle is in flight after the previous cycle's call failed
C18_Witness ==
    /\ waiter["sched"].result = "error"
    /\ waiter["sched"].pc = "refresh"
    /\ refreshInFlight

\* the flags are as a NotifyWrite leaves them
AlreadyNotified ==
    \/ ~refreshInFlight /\ refreshPending
    \/ refreshInFlight /\ refreshRequestedWhileRunning

\* C20: NotifyWrite is one step that is enabled in every state of the coordinator,
\* during the lag wait and the refresh call too, and moves no waiter; it is
\* idempotent: scheduleAnalyticsRefresh applied twice gives what it gives applied once,
\* and a NotifyWrite that follows another leaves pending, inFlight and
\* requestedWhileRunning as they are and only restarts the debounce timer (when no
\* cycle is running).
C20_NotifyWriteNonBlockingIdempotent ==
    /\ [](ENABLED NotifyWrite)
    /\ [](scheduleAnalyticsRefresh(scheduleAnalyticsRefresh(Flags)) =
              scheduleAnalyticsRefresh(Flags))
    /\ [][NotifyWrite =>
            /\ UNCHANGED <<waiter, refreshInFlight>>
            /\ AlreadyNotified'
            /\ AlreadyNotified =>
                   /\ UNCHANGED <<refreshPending, refreshRequestedWhileRunning>>
                   /\ refreshTimer' = IF refreshInFlight THEN refreshTimer
                                      ELSE [armed |-> TRUE, left |-> refreshDelayMs]]_vars

\* two NotifyWrite calls before any scheduled cycle began, made while a manual refresh
\* call is running: the last has just set the timer to the full window
C20_Witness ==
    /\ hist.burst >= 2
    /\ hist.sinceLastNotify = 0
    /\ refreshPending /\ ~refreshInFlight
    /\ refreshTimer = [armed |-> TRUE, left |-> refreshDelayMs]
    /\ waiter["sched"] = IdleWaiter
    /\ \E m \in Manuals : waiter[m].pc = "refresh"

\* C21: a manual refresh does not wait for the debounce window: it can start in every
\* state of the flags and the timer, and starts with the lag wait; its refresh call is
\* issued only at the end of a lag wait (caught-up, timed-out or no-stats); and it
\* returns only from its refresh call, Ack if the call succeeded and Error if it failed.
C21_ManualWaitsForLagThenRefreshes ==
    /\ [](\A m \in Manuals : waiter[m].pc = "idle" => ENABLED RefreshNow(m))
    /\ [][\A m \in Manuals :
            /\ (waiter[m].pc = "idle" /\ waiter'[m].pc # "idle") =>
                   /\ waiter'[m].pc = "poll"
                   /\ waiter'[m].elapsed = 0
                   /\ UNCHANGED flagVars
            /\ (waiter[m].pc # "refresh" /\ waiter'[m].pc = "refresh") =>
                   /\ InWait(m)
                   /\ waiter'[m].status \in {"caught-up", "timed-out", "no-stats"}
            /\ (waiter[m].pc # "idle" /\ waiter'[m].pc = "idle") =>
                   /\ waiter[m].pc = "refresh"
                   /\ waiter'[m].result \in {"ack", "error"}
                   /\ waiter'[m].result = "ack" <=> ManualRefreshReturns(m, TRUE)
                   /\ waiter'[m].result = "error" <=> ManualRefreshReturns(m, FALSE)]_vars

\* a manual refresh was issued in PendingDebounce: its lag wait is over and its refresh
\* call is in flight while the debounce timer still has time to run
C21_Witness ==
    \E m \in Manuals :
        /\ waiter[m].pc = "refresh"
        /\ waiter[m].status = "caught-up"
        /\ refreshPending /\ refreshTimer.armed /\ refreshTimer.left > 0
        /\ waiter["sched"].pc = "idle"

\* a refresh is scheduled after this step: a timer is armed with the pending flag, or
\* the running cycle has the request flag
FollowUpScheduledAfter ==
    \/ refreshPending' /\ refreshTimer'.armed
    \/ refreshInFlight' /\ refreshRequestedWhileRunning'

\* C22: whenever a lag wait ended timed-out or no-stats and the refresh was then
\* performed, a corrective follow-up refresh is scheduled when the refresh call
\* returns, for the cycle started by the debounce timer and for a manual refresh.
C22_FollowUpAfterLaggingRefresh ==
    [][\A w \in Waiters :
          (/\ waiter[w].pc = "refresh"
           /\ waiter[w].status \in {"timed-out", "no-stats"}
           /\ waiter'[w].pc = "idle"
           /\ waiter'[w].result = "ack") => FollowUpScheduledAfter]_vars

\* C28: in a scheduled refresh the order is timer fires, lag wait, refresh call: the
\* cycle starts only when the armed timer has run out, and starts with the lag wait;
\* the refresh call is issued only from the lag wait, when it has ended; and the wait
\* ends at the first poll whose sample has data with lag at or below the target: that
\* poll goes to the refresh call as caught-up, never to another sleep or sample.
C28_TimerThenLagWaitThenRefresh ==
    /\ [][LET w == waiter["sched"]
              v == waiter'["sched"]
          IN  /\ (w.pc = "idle" /\ v.pc # "idle") =>
                     /\ refreshTimer.armed /\ refreshTimer.left = 0 /\ refreshPending
                     /\ v.pc = "poll" /\ v.elapsed = 0
                     /\ refreshInFlight' /\ ~refreshTimer'.armed
              /\ (w.pc # "refresh" /\ v.pc = "refresh") =>
                     /\ InWait("sched")
                     /\ v.status \in {"caught-up", "timed-out", "no-stats"}
                     /\ v.status = "caught-up" => w.pc = "poll"
                     /\ v.status # "caught-up" => ~WithinBudget(w.elapsed)
              /\ (w.pc = "refresh" /\ v.pc # "refresh") => v.pc = "idle"]_vars
    /\ [](waiter["sched"].pc = "poll" =>
             \A lag \in 0..replicationLagTargetMs :
                 /\ ENABLED Poll("sched", lag)
                 /\ ~ENABLED (/\ Poll("sched", lag)
                              /\ ~(/\ waiter'["sched"].pc = "refresh"
                                   /\ waiter'["sched"].status = "caught-up")))

\* the scheduled cycle at its refresh call after a lag wait that ended caught-up
C28_Witness ==
    /\ waiter["sched"].pc = "refresh"
    /\ waiter["sched"].status = "caught-up"
    /\ refreshInFlight /\ ~refreshTimer.armed
    /\ hist.cycles >= 1

\* C29: the lag wait reports how it ended: caught-up iff it ended at a poll (whose
\* sample then had lag at or below the target); otherwise it ends when the maximum
\* wait is used up, as timed-out iff at least one sample of the wait had data and as
\* no-stats iff none had.  sawLagSample is false at the start of a wait and becomes
\* true exactly at a sample with data.
C29_WaitStatusTellsHowItEnded ==
    /\ [][\A x \in Waiters :
            LET w == waiter[x]
                v == waiter'[x]
            IN  /\ (w.pc = "idle" /\ v.pc = "poll") => ~v.sawLagSample
                /\ (InWait(x) /\ v.pc \in {"poll", "sleep"} /\ ~(w.pc = "poll" /\ v.pc = "sleep")) =>
                       v.sawLagSample = w.sawLagSample
                /\ (InWait(x) /\ v.pc = "refresh") =>
                       /\ v.status = "caught-up" <=> w.pc = "poll"
                       /\ v.status = "timed-out" <=>
                              (w.pc = "sleep" /\ ~WithinBudget(w.elapsed) /\ w.sawLagSample)
                       /\ v.status = "no-stats" <=>
                              (w.pc = "sleep" /\ ~WithinBudget(w.elapsed) /\ ~w.sawLagSample)]_vars
    /\ [](\A x \in Waiters : waiter[x].pc = "poll" =>
             \A lag \in LagSamples :
                 ~ENABLED (/\ Poll(x, lag)
                           /\ IF lag # NoData /\ lag <= replicationLagTargetMs
                              THEN ~(waiter'[x].pc = "refresh" /\ waiter'[x].status = "caught-up")
                              ELSE ~(/\ waiter'[x].pc = "sleep"
                                     /\ waiter'[x].sawLagSample =
                                            (waiter[x].sawLagSample \/ lag # NoData))))

\* one wait has ended with no sample that had data, another with samples above the
\* target
C29_Witness ==
    \E x, y \in Waiters :
        /\ waiter[x].pc = "refresh" /\ waiter[x].status = "no-stats"
        /\ waiter[y].pc = "refresh" /\ waiter[y].status = "timed-out"

\* the coordinator is Idle: no timer, no flag set, no scheduled cycle running
IdleNow ==
    /\ refreshTimer = NoTimer
    /\ ~refreshPending /\ ~refreshInFlight /\ ~refreshRequestedWhileRunning
    /\ waiter["sched"].pc = "idle"

\* C30: a failed refresh call is dropped, not retried: the refresh call of a scheduled
\* cycle can fail after every kind of lag wait, and when it fails with no NotifyWrite
\* arrived during the cycle, no follow-up is scheduled, whatever the status of the
\* wait was: the coordinator is Idle with no timer, and from Idle only a NotifyWrite
\* starts it again.
C30_FailedRefreshIsNotRetried ==
    /\ [](waiter["sched"].pc = "refresh" =>
             ENABLED (ScheduledRefreshReturns(FALSE) /\ waiter'["sched"].result = "error"))
    /\ [][(/\ waiter["sched"].pc = "refresh"
           /\ waiter'["sched"].pc = "idle"
           /\ waiter'["sched"].result = "error"
           /\ ~refreshRequestedWhileRunning) =>
               /\ IdleAfter
               /\ hist'.retries = hist.retries]_vars
    /\ [][(IdleNow /\ flagVars' # flagVars) =>
               /\ PendingDebounceAfter
               /\ waiter'["sched"].pc = "idle"]_vars

\* the refresh call of the cycle that followed the last NotifyWrite has failed and the
\* coordinator is Idle: no timer, no follow-up
C30_Witness ==
    /\ IdleNow
    /\ waiter["sched"].result = "error"
    /\ hist.cycles = 1
    /\ hist.retries = 0
    /\ hist.sinceLastNotify = refreshDelayMs

\* C32: in every reachable state of the scheduler refreshPending and refreshInFlight
\* are never both true, refreshRequestedWhileRunning is true only while
\* refreshInFlight is, and the one debounce timer the scheduler has is armed exactly
\* when refreshPending is true.
C32_SchedulerFlagsConsistent ==
    /\ ~(refreshPending /\ refreshInFlight)
    /\ refreshRequestedWhileRunning => refreshInFlight
    /\ refreshTimer.armed <=> refreshPending
    /\ ~refreshTimer.armed => refreshTimer = NoTimer
    /\ refreshTimer.armed => refreshTimer.left \in 0..refreshDelayMs

\* a NotifyWrite has arrived while a cycle runs: the request flag is set, nothing is
\* pending and no timer is armed
C32_Witness ==
    /\ refreshInFlight /\ refreshRequestedWhileRunning
    /\ ~refreshPending /\ refreshTimer = NoTimer
    /\ InWait("sched")

\* this step is one of the manual handler m: its start, the end of a lag query or of
\* a sleep, or its response
ManualStep(m) == waiter'[m].pc # waiter[m].pc

\* C35: a manual refresh leaves the refresh schedule as it is: no step of the manual
\* handler changes refreshPending, refreshInFlight, refreshRequestedWhileRunning or
\* the debounce timer, its steps can be taken whatever the flags are, and a timer
\* that is due with a refresh pending fires while a manual refresh is under way.
C35_ManualRefreshLeavesScheduleAlone ==
    /\ [][\A m \in Manuals : ManualStep(m) => UNCHANGED <<flagVars, hist>>]_vars
    /\ [](\A m \in Manuals :
             /\ waiter[m].pc = "idle" => ENABLED RefreshNow(m)
             /\ waiter[m].pc = "refresh" => ENABLED ManualRefreshReturns(m, TRUE)
             /\ waiter[m].pc = "poll" => ENABLED Poll(m, 0))
    /\ []((refreshPending /\ refreshTimer.armed /\ refreshTimer.left = 0) =>
             ENABLED (TimerFires /\ refreshInFlight' /\ waiter'["sched"].pc = "poll"))

\* the debounce timer is due while one manual refresh sleeps in its lag wait and
\* another has its refresh call in flight
C35_Witness ==
    /\ refreshPending /\ refreshTimer.armed /\ refreshTimer.left = 0
    /\ waiter["m1"].pc = "sleep"
    /\ waiter["m2"].pc = "refresh"

\* C37: a failed replication-status query counts as a measured lag of 0: the poll at
\* which it fails ends the lag wait as caught-up, the refresh call follows at once,
\* and when that call returns no corrective follow-up is scheduled; only the empty
\* result is a sample without data.
C37_FailedQueryCountsAsCaughtUp ==
    /\ [](/\ getReplicationLagMs(QueryFailed) = 0
          /\ 0 <= replicationLagTargetMs
          /\ \A q \in QueryOutcomes : getReplicationLagMs(q) = NoData <=> q.kind = "empty")
    /\ [](\A w \in Waiters : waiter[w].pc = "poll" =>
             /\ ENABLED PollQuery(w, QueryFailed)
             /\ ~ENABLED (/\ PollQuery(w, QueryFailed)
                          /\ ~(/\ waiter'[w].pc = "refresh"
                               /\ waiter'[w].status = "caught-up")))
    /\ [][(/\ waiter["sched"].pc = "refresh"
           /\ waiter["sched"].status = "caught-up"
           /\ waiter'["sched"].pc = "idle"
           /\ ~refreshRequestedWhileRunning) => IdleAfter /\ hist'.retries = hist.retries]_vars

\* the one cycle since the last NotifyWrite has ended with a refresh call that
\* succeeded, and nothing is scheduled: no timer, no follow-up
C37_Witness ==
    /\ IdleNow
    /\ waiter["sched"].result = "ack"
    /\ hist.cycles = 1
    /\ hist.retries = 0
    /\ \A m \in Manuals : waiter[m].pc = "idle"

----------------------------------------------------------------------------
(* The write path together with the scheduled refresh it triggers          *)

\* one handler that books and cancels seat 101, and the scheduled refresh cycle
NextDecoupled ==
    \/ \E r \in {q \in Requests : q.seatIds = <<101>>} : StartBooking("c1", r)
    \/ LockNextSeat("c1")
    \/ WriteSeats("c1")
    \/ CommitBooking("c1")
    \/ \E b \in BookingIds : StartCancel("c1", b)
    \/ ReleaseNextSeat("c1")
    \/ CancelBookingRow("c1")
    \/ CommitCancel("c1")
    \/ TimerFires
    \/ \E q \in QueryOutcomes : PollQuery("sched", q)
    \/ WakeUp("sched")
    \/ \E ok \in BOOLEAN : ScheduledRefreshReturns(ok)
    \/ Tick

SpecDecoupled == Init /\ [][NextDecoupled]_vars

\* this step belongs to the refresh path: the timer fires or the scheduled cycle moves
RefreshPathStep == waiter' # waiter \/ (refreshTimer.armed /\ ~refreshTimer'.armed)

\* C19: the outcome of a write does not depend on the refresh path: in every state of
\* the coordinator the commit of a booking or of a cancellation answers success and
\* nothing else; no step of the refresh path (timer, lag wait, refresh call, whether it
\* times out or fails) changes a committed row or a handler's response; and a confirmed
\* booking changes only by the commit of a cancellation.
C19_WriteOutcomeIndependentOfRefresh ==
    /\ [](\A c \in Clients :
            /\ (txn[c].op = "book" /\ txn[c].pc = "confirm") =>
                   /\ ENABLED CommitBooking(c)
                   /\ ~ENABLED (CommitBooking(c) /\ txn'[c].response.code # 200)
            /\ (txn[c].op = "cancel" /\ txn[c].pc = "commit") =>
                   /\ ENABLED CommitCancel(c)
                   /\ ~ENABLED (CommitCancel(c) /\ txn'[c].response.code # 200))
    /\ [][RefreshPathStep => UNCHANGED <<seats, bookings, booking_details, txn>>]_vars
    /\ [][\A b \in BookingIds :
            (bookings[b].status = "confirmed" /\ bookings'[b] # bookings[b]) =>
                \E c \in Clients : CommitCancel(c) /\ txn[c].booking_id = b]_vars

\* a booking is committed and its caller has the success response, and the scheduled
\* refresh that followed timed out waiting for the replica and then failed
C19_Witness ==
    /\ txn["c1"].pc = "done"
    /\ txn["c1"].response.code = 200
    /\ \E b \in BookingIds : bookings[b].status = "confirmed"
    /\ waiter["sched"].result = "error"
    /\ waiter["sched"].pc = "idle"
    /\ hist.cycles >= 1

----------------------------------------------------------------------------
(* The scheduler on its own: timers run out, lag queries answer, sleeps    *)
(* end and refresh calls return                                            *)

PollScheduled == \E q \in QueryOutcomes : PollQuery("sched", q)
ScheduledRefreshEnds == \E ok \in BOOLEAN : ScheduledRefreshReturns(ok)

NextScheduler ==
    \/ NotifyWrite
    \/ TimerFires
    \/ PollScheduled
    \/ WakeUp("sched")
    \/ ScheduledRefreshEnds
    \/ Tick

\* setTimeout callbacks run when due, awaited promises settle, and the handlers stop
\* calling scheduleAnalyticsRefresh() from some time on
SpecScheduler ==
    /\ Init
    /\ [][NextScheduler]_vars
    /\ WF_vars(TimerFires)
    /\ WF_vars(PollScheduled)
    /\ WF_vars(WakeUp("sched"))
    /\ WF_vars(ScheduledRefreshEnds)
    /\ WF_vars(Tick)
    /\ <>[][~NotifyWrite]_vars

\* scheduleAnalyticsRefresh() has just been called and no cycle has begun since
JustNotified == hist.sinceLastNotify = 0 /\ hist.cycles = 0

\* C31: no write notification is lost: when NotifyWrite calls stop arriving and
\* timers, lag polls and refresh calls complete, every NotifyWrite, in whichever state
\* it arrives, is followed by the refresh call of a cycle that began after it; one
\* that arrives during the lag wait is followed by the refresh call of that wait too.
C31_NotifyWriteLeadsToRefresh ==
    /\ JustNotified ~> (waiter["sched"].pc = "refresh" /\ hist.cycles >= 1)
    /\ (JustNotified /\ InWait("sched")) ~> (waiter["sched"].pc = "refresh")

\* the refresh call of the follow-up cycle of a NotifyWrite that arrived while the
\* previous cycle ran
C31_Witness ==
    /\ waiter["sched"].pc = "refresh"
    /\ hist.cycles = 1
    /\ hist.burst = 1
    /\ hist.retries = 0
    /\ waiter["sched"].result \in {"ack", "error"}

\* C33: quiescence: once NotifyWrite calls stop arriving the coordinator issues only
\* finitely many further refresh calls, reaches Idle and stays there, whatever the
\* lag samples are.
C33_EventuallyIdleForever == <>[]IdleNow

\* what a call of scheduleAnalyticsRefresh() does while a cycle is in flight: the
\* request flag is set and nothing else of the schedule or of the cycle changes
OnlyRequestRecorded ==
    /\ refreshRequestedWhileRunning'
    /\ UNCHANGED <<refreshTimer, refreshPending, refreshInFlight, waiter>>
    /\ refreshTimer = NoTimer

\* C39: a NotifyWrite that arrives while the scheduled cycle is in its lag wait is
\* handled as one that arrives during the refresh call: it only sets
\* refreshRequestedWhileRunning, arms no timer and leaves the lag wait where it is;
\* when the refresh call of the cycle returns, however many NotifyWrite calls arrived
\* and whatever the call's outcome, the request flag is cleared and one full debounce
\* timer is armed, which is not counted as a corrective retry; and once the writes
\* stop that timer starts the follow-up cycle.
C39_NotifyWhileWaitingIsDeferred ==
    /\ [][(NotifyWrite /\ InWait("sched")) => OnlyRequestRecorded]_vars
    /\ [][(NotifyWrite /\ waiter["sched"].pc = "refresh") => OnlyRequestRecorded]_vars
    /\ [][(InWait("sched") /\ refreshRequestedWhileRunning) =>
             /\ refreshRequestedWhileRunning' /\ ~refreshTimer'.armed
             /\ waiter'["sched"].pc \in {"poll", "sleep", "refresh"}]_vars
    /\ [][(waiter["sched"].pc = "refresh" /\ refreshRequestedWhileRunning) =>
             \/ /\ refreshRequestedWhileRunning' /\ UNCHANGED refreshTimer
                /\ waiter'["sched"] = waiter["sched"]
             \/ /\ waiter'["sched"].pc = "idle"
                /\ PendingDebounceAfter
                /\ hist'.retries = hist.retries]_vars
    /\ (InWait("sched") /\ refreshRequestedWhileRunning) ~>
           (waiter["sched"].pc = "idle" /\ refreshPending /\ refreshTimer.armed)
    /\ (waiter["sched"].pc = "idle" /\ refreshPending /\ refreshTimer.armed) ~>
           (InWait("sched") /\ hist.cycles >= 1)

\* a NotifyWrite has just arrived in the middle of the lag wait of the scheduled
\* cycle: the wait goes on in its sleep, no timer is armed, the request is recorded
C39_Witness ==
    /\ waiter["sched"].pc = "sleep" /\ waiter["sched"].elapsed > 0
    /\ refreshInFlight /\ refreshRequestedWhileRunning
    /\ refreshTimer = NoTimer /\ ~refreshPending
    /\ hist.sinceLastNotify = 0 /\ hist.cycles = 0

====
